---- MODULE Spec2Model ----
(***************************************************************************)
(* Model of src/app.py, the CRM store SMS audience dashboard: a Streamlit  *)
(* script that is re-run from top to bottom on every user action.  One     *)
(* action of the model is one run of the script with one button pressed.   *)
(*                                                                         *)
(* Text values (keyword, shop ids, shop names, customer ids) are sequences *)
(* of one-character strings, so that strip / split / substring match are   *)
(* computed and not assumed.  Brand codes and flag values are only ever    *)
(* compared for equality and are plain strings.                            *)
(***************************************************************************)
EXTENDS Integers, Sequences, FiniteSets, TLC

VARIABLES db, results, selected_df, shown, totals, last, open, lastAdded

vars == <<db, results, selected_df, shown, totals, last, open, lastAdded>>

(***************************************************************************)
(* Bounds of the model                                                     *)
(***************************************************************************)
MaxKwLen == 1       \* longest keyword typed into the text input
NumCids == 2        \* distinct customer identifiers in the warehouse
MaxAccounts == 2    \* rows of ACCOUNT
MaxSales == 1       \* rows of DW_SALE
MaxDate == 1        \* sale dates and date-input bounds are 1..MaxDate

(***************************************************************************)
(* Text helpers                                                            *)
(***************************************************************************)
\* SQL NULL / Python None for a text column.
NULL == <<"NULL">>

\* '매장미매핑', the literal COALESCE substitutes for a missing shop name.
Unmapped == <<"unmapped">>

\* str(None)
NoneStr == <<"N", "o", "n", "e">>

IsSpace(ch) == ch = " "

\* the character class [,\s] of the split pattern
IsSep(ch) == ch = "," \/ IsSpace(ch)

RECURSIVE LStrip(_)
LStrip(s) == IF s # <<>> /\ IsSpace(Head(s)) THEN LStrip(Tail(s)) ELSE s

RECURSIVE RStrip(_)
RStrip(s) ==
  IF s # <<>> /\ IsSpace(s[Len(s)]) THEN RStrip(SubSeq(s, 1, Len(s) - 1)) ELSE s

\* str.strip()
Strip(s) == RStrip(LStrip(s))

\* re.split(r"[,\s]+", s): the pieces between maximal runs of separators,
\* empty pieces at either end included.
RECURSIVE ReSplitFrom(_, _, _, _)
ReSplitFrom(s, i, cur, inSep) ==
  IF i > Len(s) THEN <<cur>>
  ELSE IF IsSep(s[i])
       THEN IF inSep THEN ReSplitFrom(s, i + 1, cur, TRUE)
            ELSE <<cur>> \o ReSplitFrom(s, i + 1, <<>>, TRUE)
       ELSE ReSplitFrom(s, i + 1, Append(cur, s[i]), FALSE)

ReSplit(s) == ReSplitFrom(s, 1, <<>>, FALSE)

\* tokens = [t.strip() for t in re.split(...) if t.strip()]
Tokens(kw) ==
  LET pieces == ReSplit(kw)
      stripped == [i \in 1..Len(pieces) |-> Strip(pieces[i])]
  IN  SelectSeq(stripped, LAMBDA t : t # <<>>)

LowerCh(ch) == CASE ch = "A" -> "a" [] ch = "B" -> "b" [] OTHER -> ch

LowerSeq(s) == [i \in 1..Len(s) |-> LowerCh(s[i])]

Contains(s, t) ==
  \E i \in 0..(Len(s) - Len(t)) : SubSeq(s, i + 1, i + Len(t)) = t

\* col ILIKE '%t%' (t without wildcard characters); not true on NULL.
ILike(col, t) == col # NULL /\ Contains(LowerSeq(col), LowerSeq(t))

\* LENGTH(TRIM(cid)) > 0
NonBlank(cid) == Strip(cid) # <<>>

(***************************************************************************)
(* The warehouse (external collaborator): three tables                     *)
(***************************************************************************)
BrandOptions == {"X", "M", "I"}

Digit == <<"1", "2", "3", "4">>

Cids == {<<Digit[i]>> : i \in 1..NumCids}

ShopRow(brd, id, name) == [BRD_CD |-> brd, SHOP_ID |-> id, SHOP_NM_SHORT |-> name]

\* One shop id is used by two brands under different names, one shop has
\* no short name.
ShopTable ==
  { ShopRow("X", <<"a">>, <<"A", "b">>),
    ShopRow("M", <<"a">>, <<"b">>),
    ShopRow("X", <<"b">>, NULL) }

Account(cid, store, brand, sleep, recv, status) ==
  [cid |-> cid, joinstore |-> store, joinbrand |-> brand,
   sleep_yn |-> sleep, recv_sms |-> recv, status_cd |-> status]

\* (joinstore, joinbrand) of an account; <<"z">> is a store DB_SHOP lacks.
JoinKeys ==
  { <<<<"a">>, "X">>, <<<<"a">>, "M">>, <<<<"b">>, "X">>, <<<<"z">>, "X">> }

AccountPool ==
  { Account(c, k[1], k[2], "N", "Y", "R") : c \in Cids, k \in JoinKeys }
  \cup { Account(<<"1">>, <<"a">>, "X", "Y", "Y", "R"),
         Account(<<"1">>, <<"a">>, "X", "N", "N", "R"),
         Account(<<"1">>, <<"a">>, "X", "N", "Y", "D"),
         Account(NULL, <<"a">>, "X", "N", "Y", "R"),
         Account(<<" ">>, <<"a">>, "X", "N", "Y", "R") }

Sale(brd, shop, cust, dt) ==
  [BRD_CD |-> brd, SHOP_ID |-> shop, CUST_ID |-> cust, SALE_DT |-> dt]

\* Date 0 lies before every range the date input can express.
SalePool ==
  { Sale(s.BRD_CD, s.SHOP_ID, c, d) : s \in ShopTable, c \in Cids, d \in 0..MaxDate }

UpTo(S, n) == { T \in SUBSET S : Cardinality(T) <= n }

Warehouse(acc, sales) == [ACCOUNT |-> acc, DB_SHOP |-> ShopTable, DW_SALE |-> sales]

AllDBs ==
  { Warehouse(acc, sales) : acc \in UpTo(AccountPool, MaxAccounts),
                            sales \in UpTo(SalePool, MaxSales) }

\* Warehouses of the interactive sessions: counts of store a depend on the
\* date filter (D1); store a is listed once per brand (D2).
SessionDBs ==
  { Warehouse({ Account(<<"1">>, <<"a">>, "X", "N", "Y", "R"),
                Account(<<"2">>, <<"b">>, "X", "N", "Y", "R") },
              { Sale("X", <<"a">>, <<"2">>, 0) }),
    Warehouse({ Account(<<"1">>, <<"a">>, "X", "N", "Y", "R"),
                Account(<<"2">>, <<"a">>, "M", "N", "Y", "R") },
              { Sale("M", <<"a">>, <<"2">>, 1) }) }

(***************************************************************************)
(* The search SQL (lines 151-211)                                          *)
(***************************************************************************)
\* The filter descriptor the handler builds from the widgets: brands,
\* tokens, and the date parameters (<<>> when all_time is checked).
Filter(brands, tokens, dates) == [brands |-> brands, tokens |-> tokens, dates |-> dates]

\* A.sleep_yn__c = 'N' AND A.recv_sms__c = 'Y' AND A.status_cd__c = 'R'
\* AND A.cid IS NOT NULL AND LENGTH(TRIM(A.cid)) > 0
Eligible(a) ==
  /\ a.sleep_yn = "N"
  /\ a.recv_sms = "Y"
  /\ a.status_cd = "R"
  /\ a.cid # NULL
  /\ NonBlank(a.cid)

\* token_filter_sql: empty when there are no conditions, else the OR of
\* (S.SHOP_NM_SHORT ILIKE %t% OR TO_VARCHAR(S.SHOP_ID) ILIKE %t%).
TokenFilter(tokens, shopId, shopName) ==
  \/ tokens = <<>>
  \/ \E i \in 1..Len(tokens) : ILike(shopName, tokens[i]) \/ ILike(shopId, tokens[i])

\* sale_dt_filter_sql
SaleDtFilter(dates, dt) ==
  dates = <<>> \/ (dates[1] <= dt /\ dt <= dates[2])

\* COALESCE(S.SHOP_NM_SHORT, '매장미매핑')
ShopName(name) == IF name = NULL THEN Unmapped ELSE name

Cohort(id, name, cid) == [SHOP_ID |-> id, SHOP_NAME |-> name, CID |-> cid]

\* ACCOUNT LEFT JOIN DB_SHOP: the matching shops, or one all-NULL shop.
ShopsOfAccount(d, a) ==
  LET m == { s \in d.DB_SHOP : a.joinstore = s.SHOP_ID /\ a.joinbrand = s.BRD_CD }
  IN  IF m = {} THEN { ShopRow(NULL, NULL, NULL) } ELSE m

\* CTE M.  Only membership of (shop, cid) and distinct counts are read
\* from M, so its rows are kept as a set.
M(d, f) ==
  { Cohort(s.SHOP_ID, ShopName(s.SHOP_NM_SHORT), a.cid) :
      <<a, s>> \in { p \in UNION { {<<a, s>> : s \in ShopsOfAccount(d, a)} : a \in d.ACCOUNT } :
               /\ p[1].joinbrand \in f.brands
               /\ Eligible(p[1])
               /\ TokenFilter(f.tokens, p[2].SHOP_ID, p[2].SHOP_NM_SHORT) } }

\* CTE P (SELECT DISTINCT).
P(d, f) ==
  { Cohort(t[2].SHOP_ID, ShopName(t[2].SHOP_NM_SHORT), t[3].cid) :
      t \in { t \in d.DW_SALE \X d.DB_SHOP \X d.ACCOUNT :
               /\ t[1].BRD_CD = t[2].BRD_CD
               /\ t[1].SHOP_ID = t[2].SHOP_ID
               /\ t[3].cid # NULL
               /\ t[3].cid = t[1].CUST_ID
               /\ t[3].joinbrand = t[1].BRD_CD
               /\ t[1].BRD_CD \in f.brands
               /\ SaleDtFilter(f.dates, t[1].SALE_DT)
               /\ Eligible(t[3])
               /\ TokenFilter(f.tokens, t[2].SHOP_ID, t[2].SHOP_NM_SHORT) } }

\* M.SHOP_ID = P.SHOP_ID AND M.CID = P.CID (never true on NULL)
SameShopAndCid(m, p) ==
  /\ m.SHOP_ID # NULL /\ p.SHOP_ID # NULL /\ m.SHOP_ID = p.SHOP_ID
  /\ m.CID # NULL /\ p.CID # NULL /\ m.CID = p.CID

PO_NoAntiJoin(pp, mm) == pp

\* CTE PO: P LEFT JOIN M ... WHERE M.CID IS NULL, for the rows pp of P
\* and mm of M
PO(pp, mm) ==
  { p \in pp : ~ \E m \in mm : SameShopAndCid(m, p) }

StoreRow(code, name, m, p, t) ==
  [store_code |-> code, shop_name |-> name,
   member_cnt |-> m, purchaser_cnt |-> p, total_cnt |-> t]

\* SELECT ... FROM (M UNION ALL PO) X GROUP BY 1,2 : one row per
\* (SHOP_ID, SHOP_NAME) with the three COUNT(DISTINCT ...) columns.
GroupRows(d, f) ==
  LET mm == M(d, f)
      po == PO(P(d, f), mm)
      keys == { <<x.SHOP_ID, x.SHOP_NAME>> : x \in mm \cup po }
      cids(S, k) == { x.CID : x \in { y \in S : y.SHOP_ID = k[1] /\ y.SHOP_NAME = k[2] } }
  IN  { StoreRow(k[1], k[2],
                 Cardinality(cids(mm, k)),
                 Cardinality(cids(po, k)),
                 Cardinality(cids(mm \cup po, k))) : k \in keys }

\* ORDER BY TOTAL_CNT DESC, MEMBER_CNT DESC, PURCHASER_CNT DESC
OrderedBefore(r, q) ==
  \/ r.total_cnt > q.total_cnt
  \/ r.total_cnt = q.total_cnt /\ r.member_cnt > q.member_cnt
  \/ /\ r.total_cnt = q.total_cnt /\ r.member_cnt = q.member_cnt
     /\ r.purchaser_cnt >= q.purchaser_cnt

\* Every listing of the rows the ORDER BY allows (rows with equal keys
\* come in either order).
RECURSIVE Orderings(_)
Orderings(rows) ==
  IF rows = {} THEN { <<>> }
  ELSE UNION { { <<r>> \o s : s \in Orderings(rows \ {r}) } :
               r \in { r \in rows : \A q \in rows : OrderedBefore(r, q) } }

(***************************************************************************)
(* Data frames                                                             *)
(***************************************************************************)
Frame(cols, rows) == [columns |-> cols, rows |-> rows]

\* pd.DataFrame()
EmptyFrame == Frame(<<>>, <<>>)

CanonicalColumns ==
  <<"store_code", "shop_name", "member_cnt", "purchaser_cnt", "total_cnt">>

\* pd.DataFrame(columns=[...])
EmptySelection == Frame(CanonicalColumns, <<>>)

\* The column labels the warehouse returns for the search SQL.
SqlColumns ==
  <<"STORE_CODE", "SHOP_NAME", "MEMBER_CNT", "PURCHASER_CNT", "TOTAL_CNT">>

\* c.lower() on a column label
LowerLabel(c) ==
  CASE c = "STORE_CODE" -> "store_code"
    [] c = "SHOP_NAME" -> "shop_name"
    [] c = "MEMBER_CNT" -> "member_cnt"
    [] c = "PURCHASER_CNT" -> "purchaser_cnt"
    [] c = "TOTAL_CNT" -> "total_cnt"
    [] c = "USER_ID" -> "user_id"
    [] OTHER -> c

\* df.columns = [c.lower() for c in df.columns]
LowerColumns(df) ==
  Frame([i \in 1..Len(df.columns) |-> LowerLabel(df.columns[i])], df.rows)

\* DataFrame.empty
IsEmpty(df) == df.rows = <<>> \/ df.columns = <<>>

\* The tables the warehouse may return for the search SQL.
SearchAnswers(d, f) == { Frame(SqlColumns, rows) : rows \in Orderings(GroupRows(d, f)) }

(***************************************************************************)
(* run_query (lines 63-75)                                                 *)
(***************************************************************************)
\* What becomes of one call.  "cache_hit": st.cache_data holds an entry
\* for this sql and params (an earlier fetch of the same key succeeded
\* less than ttl ago; the warehouse does not change during a session, so
\* the cached table is the answer).  The errors are raised by
\* get_connection, by conn.cursor, and by cur.execute or
\* cur.fetch_pandas_all ("execute_error": both are in the inner try).
ErrorFates == {"connect_error", "cursor_error", "execute_error"}

Fates == {"cache_hit", "ok"} \cup ErrorFates

\* The answer of the warehouse to a statement it cannot compile.
SqlError == Frame(<<"SQL compilation error">>, <<>>)

\* A statement that does not compile fails in execute at the latest and
\* is never cached.
FatesFor(answer) ==
  IF answer = SqlError THEN ErrorFates
  ELSE Fates

Returned(df, conns, cursors) ==
  [raised |-> FALSE, df |-> df, conns |-> conns, cursors |-> cursors]

Raised(conns, cursors) ==
  [raised |-> TRUE, df |-> EmptyFrame, conns |-> conns, cursors |-> cursors]

\* The inner try: cur.execute, cur.fetch_pandas_all; finally cur.close().
InnerTry(fate, answer) ==
  LET body == IF fate = "execute_error"
              THEN Raised(1, 1) ELSE Returned(answer, 1, 1)
  IN  [body EXCEPT !.cursors = 0]

RunQuery_CloseOnSuccessOnly(fate, answer) ==
  CASE fate = "cache_hit" -> Returned(answer, 0, 0)
    [] fate = "connect_error" -> Raised(0, 0)
    [] fate = "cursor_error" -> Raised(1, 0)
    [] fate = "execute_error" -> Raised(1, 1)
    [] OTHER -> Returned(answer, 0, 0)

\* run_query: conn = get_connection(); try: cur = conn.cursor(); inner
\* try; finally: conn.close(); return df.
RunQuery(fate, answer) ==
  IF fate = "cache_hit" THEN Returned(answer, 0, 0)
  ELSE IF fate = "connect_error" THEN Raised(0, 0)
  ELSE LET body == IF fate = "cursor_error" THEN Raised(1, 0)
                   ELSE InnerTry(fate, answer)
       IN  [body EXCEPT !.conns = 0]

(***************************************************************************)
(* Selection accumulator (lines 230-260)                                   *)
(***************************************************************************)
\* str(x) of a store code
Str(code) == IF code = NULL THEN NoneStr ELSE code

Bar == <<" ", "|", " ">>

\* One option of the multiselect:
\* f"{store_code} | {shop_name} (... member / ... purchaser / ... total)"
Label(r) ==
  Str(r.store_code) \o Bar \o r.shop_name
  \o <<" ", "(", ToString(r.member_cnt), "/", ToString(r.purchaser_cnt), "/",
       ToString(r.total_cnt), ")">>

\* p.split(" | ")[0]
RECURSIVE BeforeBar(_)
BeforeBar(p) ==
  IF p = <<>> THEN <<>>
  ELSE IF Len(p) >= Len(Bar) /\ SubSeq(p, 1, Len(Bar)) = Bar THEN <<>>
  ELSE <<Head(p)>> \o BeforeBar(Tail(p))

\* picked_codes, for the options at the positions in pick
PickedCodes(res, pick) == { BeforeBar(Label(res.rows[i])) : i \in pick }

\* pandas concat of the column labels: those of the first frame, then the
\* new ones of the second.
ConcatColumns(c1, c2) ==
  c1 \o SelectSeq(c2, LAMBDA c : \A i \in 1..Len(c1) : c1[i] # c)

RECURSIVE Pick(_, _, _)
Pick(rows, keep, i) ==
  IF i > Len(rows) THEN <<>>
  ELSE (IF i \in keep THEN <<rows[i]>> ELSE <<>>) \o Pick(rows, keep, i + 1)

DropDuplicates_KeepFirst(rows) ==
  Pick(rows,
       { i \in 1..Len(rows) :
           ~ \E j \in 1..(i - 1) : rows[j].store_code = rows[i].store_code },
       1)

\* .drop_duplicates(subset=["store_code"], keep="last")
DropDuplicates(rows) ==
  Pick(rows,
       { i \in 1..Len(rows) :
           ~ \E j \in (i + 1)..Len(rows) : rows[j].store_code = rows[i].store_code },
       1)

\* add_now: results[results["store_code"].isin(picked_codes)], concat,
\* drop_duplicates.
AddNow(sel, res, picked) ==
  IF picked = {} THEN sel
  ELSE LET add_rows == SelectSeq(res.rows, LAMBDA r : r.store_code \in picked)
       IN  Frame(ConcatColumns(sel.columns, res.columns),
                 DropDuplicates(sel.rows \o add_rows))

ClearSel_NoColumns(sel) == EmptyFrame

\* clear_sel
ClearSel(sel) == EmptySelection

RemoveSome_KeepPicked(sel, picked) ==
  IF picked = {} THEN sel
  ELSE Frame(sel.columns,
             SelectSeq(sel.rows,
                       LAMBDA r : Str(r.store_code) \in { Str(c) : c \in picked }))

\* remove_some: keep_mask = ~store_code.astype(str).isin(str(c) ...)
RemoveSome(sel, picked) ==
  IF picked = {} THEN sel
  ELSE Frame(sel.columns,
             SelectSeq(sel.rows,
                       LAMBDA r : Str(r.store_code) \notin { Str(c) : c \in picked }))

(***************************************************************************)
(* Totals of the accumulated selection (lines 265-304)                     *)
(***************************************************************************)
\* LMS_UNIT = 23.5, in tenths of a won
LMS_UNIT_TENTHS == 235

Column(rows, col) ==
  [i \in 1..Len(rows) |->
     CASE col = "member_cnt" -> rows[i].member_cnt
       [] col = "purchaser_cnt" -> rows[i].purchaser_cnt
       [] OTHER -> rows[i].total_cnt]

RECURSIVE SeqSum(_)
SeqSum(xs) == IF xs = <<>> THEN 0 ELSE Head(xs) + SeqSum(Tail(xs))

SumColumn_SkipFirst(rows, col) == SeqSum(Tail(Column(rows, col)))

\* int(sel_df[col].sum())
SumColumn(rows, col) == SeqSum(Column(rows, col))

NoTotals == [displayed |-> FALSE]

\* sum_row and cost_row; the costs are the amounts f"{x * LMS_UNIT:,.1f}"
\* prints, in tenths.
Totals(sel) ==
  LET total_member == SumColumn(sel.rows, "member_cnt")
      total_buyer_only == SumColumn(sel.rows, "purchaser_cnt")
      total_sum == SumColumn(sel.rows, "total_cnt")
  IN  [displayed |-> TRUE,
       total_member |-> total_member,
       total_buyer_only |-> total_buyer_only,
       total_sum |-> total_sum,
       cost_member |-> total_member * LMS_UNIT_TENTHS,
       cost_buyer_only |-> total_buyer_only * LMS_UNIT_TENTHS,
       cost_sum |-> total_sum * LMS_UNIT_TENTHS]

\* if not sel_df.empty: ... (the totals are shown only for a selection
\* with rows)
ShowTotals(sel) == IF IsEmpty(sel) THEN NoTotals ELSE Totals(sel)

(***************************************************************************)
(* The user_id export SQL (lines 325-380)                                  *)
(***************************************************************************)
CohortOptions == {"members", "purchasers_only", "total"}

UidRow(id, cid) == [SHOP_ID |-> id, CID |-> cid]

\* CTE M of the export: ACCOUNT JOIN DB_SHOP, S.SHOP_ID IN (codes)
UidM(d, brands, codes) ==
  { UidRow(p[2].SHOP_ID, p[1].cid) :
      p \in { p \in d.ACCOUNT \X d.DB_SHOP :
               /\ p[1].joinstore = p[2].SHOP_ID
               /\ p[1].joinbrand = p[2].BRD_CD
               /\ p[1].joinbrand \in brands
               /\ p[2].SHOP_ID \in codes
               /\ Eligible(p[1]) } }

\* CTE P of the export
UidP(d, brands, codes, dates) ==
  { UidRow(t[2].SHOP_ID, t[3].cid) :
      t \in { t \in d.DW_SALE \X d.DB_SHOP \X d.ACCOUNT :
               /\ t[1].BRD_CD = t[2].BRD_CD
               /\ t[1].SHOP_ID = t[2].SHOP_ID
               /\ t[3].cid # NULL
               /\ t[3].cid = t[1].CUST_ID
               /\ t[3].joinbrand = t[1].BRD_CD
               /\ t[1].BRD_CD \in brands
               /\ t[2].SHOP_ID \in codes
               /\ SaleDtFilter(dates, t[1].SALE_DT)
               /\ Eligible(t[3]) } }

\* CTE PO of the export, for the rows pp of P and mm of M
UidPO(pp, mm) ==
  { p \in pp : ~ \E m \in mm : m.SHOP_ID = p.SHOP_ID /\ m.CID = p.CID }

\* SELECT DISTINCT CID AS user_id FROM M | PO | (M UNION ALL PO)
UidSet(d, brands, codes, dates, cohort) ==
  LET mm == UidM(d, brands, codes)
      po == UidPO(UidP(d, brands, codes, dates), mm)
      rows == CASE cohort = "members" -> mm
                [] cohort = "purchasers_only" -> po
                [] OTHER -> mm \cup po
  IN  { r.CID : r \in rows }

\* The tables the warehouse may return for the export SQL; with no brand
\* the statement reads IN () and does not compile.
UidAnswers(d, brands, codes, dates, cohort) ==
  IF brands = {} THEN { SqlError }
  ELSE LET ids == UidSet(d, brands, codes, dates, cohort)
       IN  { Frame(<<"USER_ID">>, rows) :
               rows \in { s \in [1..Cardinality(ids) -> ids] :
                            \A i, j \in DOMAIN s : i # j => s[i] # s[j] } }

(***************************************************************************)
(* One run of the script per user action                                   *)
(***************************************************************************)
KwAlphabet == {"a", "b", ",", " "}

\* What can be typed into the keyword input.
KwInputs == UNION { [1..n -> KwAlphabet] : n \in 0..MaxKwLen }

\* date_params: <<>> when all_time is checked, else the two bounds.
DateInputs == { <<>> } \cup { <<s, e>> : s, e \in 1..MaxDate }

StoreCodes == { s.SHOP_ID : s \in ShopTable } \cup { NULL }

\* What the last run was: the button, what its inputs were, what became
\* of its run_query call ("none": not called), whether the table it
\* returned was empty, the size of the selection and whether results
\* were stored before it, and the store codes whose selected row an add
\* replaced by other values.
Event(op, brandsEmpty, tokensEmpty, keys, fate, empty, selBefore, resBefore) ==
  [op |-> op, brandsEmpty |-> brandsEmpty, tokensEmpty |-> tokensEmpty,
   keys |-> keys, fate |-> fate, empty |-> empty,
   selBefore |-> selBefore, hadResults |-> resBefore > 0, replaced |-> {}]

\* The two blocks every run renders after its handlers: the result table
\* (if not results.empty) and the selection with its totals (if not
\* sel_df.empty).
Rendered(res, sel) ==
  (IF IsEmpty(res) THEN {} ELSE {"results"})
  \cup (IF IsEmpty(sel) THEN {} ELSE {"selection"})

Resources(r) == [conns |-> open.conns + r.conns, cursors |-> open.cursors + r.cursors]

\* if not brands: ... elif not kw: ... else: ...
Validate(brands, kw) ==
  IF brands = {} THEN "warning_brands"
  ELSE IF kw = <<>> THEN "warning_kw"
  ELSE "ok"

AfterWarning_Keep(res) == res

\* st.session_state.results = pd.DataFrame() in both warning branches
AfterWarning(res) == EmptyFrame

StoreResults_ClearOnError(res, r) ==
  IF r.raised THEN EmptyFrame ELSE LowerColumns(r.df)

\* try: df = run_query(...); df.columns = ...; results = df
\* except Exception as e: st.exception(e)
StoreResults(res, r) ==
  IF r.raised THEN res ELSE LowerColumns(r.df)

Init ==
  /\ db \in SessionDBs
  /\ results = EmptyFrame
  /\ selected_df = EmptySelection
  /\ shown = {}
  /\ totals = NoTotals
  /\ last = Event("init", FALSE, FALSE, {}, "none", FALSE, 0, 0)
  /\ open = [conns |-> 0, cursors |-> 0]
  /\ lastAdded = [c \in StoreCodes |-> {}]

SearchWarned(brands, kwRaw, v) ==
  /\ results' = AfterWarning(results)
  /\ shown' = {v} \cup Rendered(results', selected_df)
  /\ last' = Event("search", brands = {}, Tokens(kwRaw) = <<>>, {}, "none", FALSE,
                   Len(selected_df.rows), Len(results.rows))
  /\ totals' = ShowTotals(selected_df)
  /\ UNCHANGED <<db, selected_df, open, lastAdded>>

SearchQueried(brands, kwRaw, dates) ==
  \E answer \in SearchAnswers(db, Filter(brands, Tokens(Strip(kwRaw)), dates)) :
    \E fate \in FatesFor(answer) :
      LET r == RunQuery(fate, answer) IN
      /\ results' = StoreResults(results, r)
      /\ shown' = (IF r.raised THEN {"exception"} ELSE {})
                  \cup Rendered(results', selected_df)
      /\ last' = Event("search", brands = {}, Tokens(kwRaw) = <<>>, {}, fate,
                       ~r.raised /\ IsEmpty(r.df),
                       Len(selected_df.rows), Len(results.rows))
      /\ open' = Resources(r)
      /\ totals' = ShowTotals(selected_df)
      /\ UNCHANGED <<db, selected_df, lastAdded>>

\* The search button (lines 117-216).
Search ==
  \E brands \in SUBSET BrandOptions, kwRaw \in KwInputs, dates \in DateInputs :
    LET v == Validate(brands, Strip(kwRaw)) IN
    IF v # "ok" THEN SearchWarned(brands, kwRaw, v)
    ELSE SearchQueried(brands, kwRaw, dates)

\* The add button (lines 246-251).
Add ==
  /\ ~IsEmpty(results)
  /\ \E pick \in SUBSET (1..Len(results.rows)) :
       LET keys == { results.rows[i].store_code : i \in pick } IN
       /\ selected_df' = AddNow(selected_df, results, PickedCodes(results, pick))
       /\ lastAdded' = [c \in StoreCodes |->
                          IF c \in keys
                          THEN { results.rows[i] : i \in { j \in 1..Len(results.rows) :
                                                           results.rows[j].store_code = c } }
                          ELSE lastAdded[c]]
       /\ last' = [Event("add", FALSE, FALSE, keys, "none", FALSE,
                         Len(selected_df.rows), Len(results.rows))
                     EXCEPT !.replaced =
                       { c \in keys :
                           \E i \in 1..Len(selected_df.rows) :
                             /\ selected_df.rows[i].store_code = c
                             /\ \A j \in 1..Len(results.rows) :
                                  results.rows[j] # selected_df.rows[i] }]
  /\ shown' = Rendered(results, selected_df')
  /\ totals' = ShowTotals(selected_df')
  /\ UNCHANGED <<db, results, open>>

\* The reset button (lines 253-256).
Clear ==
  /\ ~IsEmpty(results)
  /\ selected_df' = ClearSel(selected_df)
  /\ last' = Event("clear", FALSE, FALSE, {}, "none", FALSE,
                   Len(selected_df.rows), Len(results.rows))
  /\ shown' = Rendered(results, selected_df')
  /\ totals' = ShowTotals(selected_df')
  /\ UNCHANGED <<db, results, open, lastAdded>>

\* The remove button (lines 258-260).
Remove ==
  /\ ~IsEmpty(results)
  /\ \E pick \in SUBSET (1..Len(results.rows)) :
       /\ selected_df' = RemoveSome(selected_df, PickedCodes(results, pick))
       /\ last' = Event("remove", FALSE, FALSE,
                        { results.rows[i].store_code : i \in pick }, "none", FALSE,
                        Len(selected_df.rows), Len(results.rows))
  /\ shown' = Rendered(results, selected_df')
  /\ totals' = ShowTotals(selected_df')
  /\ UNCHANGED <<db, results, open, lastAdded>>

\* The user_id export button (lines 314-402).
Export ==
  /\ ~IsEmpty(selected_df)
  /\ \E brands \in SUBSET BrandOptions, dates \in DateInputs, cohort \in CohortOptions :
       LET codes == { Str(selected_df.rows[i].store_code) : i \in 1..Len(selected_df.rows) } IN
       \E answer \in UidAnswers(db, brands, codes, dates, cohort) :
         \E fate \in FatesFor(answer) :
           LET r == RunQuery(fate, answer) IN
           /\ shown' = Rendered(results, selected_df)
                       \cup (IF r.raised THEN {"exception"}
                             ELSE IF IsEmpty(r.df) THEN {"info_no_user_id"}
                             ELSE {"user_id_download"})
           /\ last' = Event("export", brands = {}, FALSE, {}, fate,
                            ~r.raised /\ IsEmpty(r.df),
                            Len(selected_df.rows), Len(results.rows))
           /\ open' = Resources(r)
  /\ totals' = ShowTotals(selected_df)
  /\ UNCHANGED <<db, results, selected_df, lastAdded>>

\* SELECT CURRENT_ROLE() ..., one row
ContextAnswer == Frame(<<"ROLE", "WH", "DB", "SCH">>, << <<"r", "w", "d", "s">> >>)

\* The connection test button (lines 80-90).
TestConnection ==
  \E fate \in Fates :
    LET r == RunQuery(fate, ContextAnswer) IN
    /\ shown' = Rendered(results, selected_df)
                \cup (IF r.raised THEN {"exception"} ELSE {"connection_ok"})
    /\ last' = Event("test", FALSE, FALSE, {}, fate, FALSE,
                     Len(selected_df.rows), Len(results.rows))
    /\ open' = Resources(r)
    /\ totals' = ShowTotals(selected_df)
  /\ UNCHANGED <<db, results, selected_df, lastAdded>>

Next == Search \/ Add \/ Clear \/ Remove \/ Export \/ TestConnection

Spec == Init /\ [][Next]_vars

(***************************************************************************)
(* The search SQL over every warehouse of the bounded family               *)
(***************************************************************************)
\* The filter descriptors the query branch of the search handler can
\* build: some brand, the tokens of some keyword, any date parameters.
QueryFilters ==
  { Filter(b, Tokens(Strip(k)), d) :
      b \in (SUBSET BrandOptions) \ { {} }, k \in KwInputs, d \in DateInputs }

InitQuery ==
  /\ db \in AllDBs
  /\ results = EmptyFrame
  /\ selected_df = EmptySelection
  /\ shown = {}
  /\ totals = NoTotals
  /\ last = Event("init", FALSE, FALSE, {}, "none", FALSE, 0, 0)
  /\ open = [conns |-> 0, cursors |-> 0]
  /\ lastAdded = [c \in StoreCodes |-> {}]

\* The query branch of the search handler (lines 125-214) with run_query
\* returning the warehouse's table.
SearchSql ==
  \E f \in QueryFilters :
    \E answer \in SearchAnswers(db, f) :
      LET r == RunQuery("ok", answer) IN
      /\ results' = StoreResults(results, r)
      /\ shown' = Rendered(results', selected_df)
      /\ totals' = ShowTotals(selected_df)
      /\ last' = Event("search", FALSE, f.tokens = <<>>, {}, "ok", IsEmpty(r.df), 0, 0)
      /\ open' = Resources(r)
      /\ UNCHANGED <<db, selected_df, lastAdded>>

NextQuery == SearchSql \/ Add

SpecQuery == InitQuery /\ [][NextQuery]_vars

(***************************************************************************)
(* Properties                                                              *)
(***************************************************************************)
SelRows == selected_df.rows

SelCodes == { SelRows[i].store_code : i \in 1..Len(SelRows) }

Warned == shown \cap {"warning_brands", "warning_kw"} # {}

\* C1: after any sequence of search, add, remove and clear the selection
\* holds at most one row per store_code, and the row of a store is one of
\* the rows the most recent add of that store took from the results (its
\* counts and shop name), never an older row.
C1_OneRowPerStoreLastAddWins ==
  /\ \A i, j \in 1..Len(SelRows) : i # j => SelRows[i].store_code # SelRows[j].store_code
  /\ \A i \in 1..Len(SelRows) : SelRows[i] \in lastAdded[SelRows[i].store_code]

\* An add has just replaced the selected row of a store by other values.
C1_Witness ==
  /\ last.op = "add"
  /\ \E c \in last.replaced : c \in SelCodes

\* C2 (amended): a search with no brand shows the brand warning, calls
\* run_query not at all, leaves the selection as it was and resets the
\* stored results to the empty frame.
C2_EmptyBrandsWarnsAndResetsResults ==
  [][(last'.op = "search" /\ last'.brandsEmpty)
       => /\ "warning_brands" \in shown'
          /\ last'.fate = "none"
          /\ selected_df' = selected_df
          /\ results' = EmptyFrame]_vars

\* A search with no brand ran while results were stored.
C2_Witness ==
  /\ last.op = "search" /\ last.brandsEmpty
  /\ last.hadResults /\ last.selBefore > 0
  /\ results = EmptyFrame

\* C2 as claimed: a search with no brand shows a warning, dispatches no
\* query and leaves both the stored results and the selection as they were.
C2_AsClaimed ==
  [][(last'.op = "search" /\ last'.brandsEmpty)
       => /\ "warning_brands" \in shown'
          /\ last'.fate = "none"
          /\ selected_df' = selected_df
          /\ results' = results]_vars

\* C3: a search whose keyword splits into no token shows a validation
\* warning and calls run_query not at all; run_query is called by a search
\* only when brands and tokens are both non-empty.
C3_NoTokensNoQuery ==
  last.op = "search" =>
    /\ last.tokensEmpty => (Warned /\ last.fate = "none")
    /\ last.fate # "none" => (~last.brandsEmpty /\ ~last.tokensEmpty)

\* C4: when run_query raises during a search or a user_id export the
\* exception is shown, nothing of the export is offered, and the selection
\* and the stored results are what they were before the action.
C4_QueryFailureLeavesState ==
  [][(last'.op \in {"search", "export"} /\ last'.fate \in ErrorFates)
       => /\ "exception" \in shown'
          /\ shown' \cap {"user_id_download", "info_no_user_id"} = {}
          /\ selected_df' = selected_df
          /\ results' = results]_vars

\* A search failed in the warehouse while results and a selection were
\* stored.
C4_Witness ==
  /\ last.op = "search" /\ last.fate \in ErrorFates
  /\ last.hadResults /\ last.selBefore > 0

RECURSIVE SumAt(_, _, _)
SumAt(rows, I, col) ==
  IF I = {} THEN 0
  ELSE LET i == CHOOSE i \in I : TRUE
       IN  Column(rows, col)[i] + SumAt(rows, I \ {i}, col)

\* C5: the totals shown are those of the current selection: the three
\* totals are the sums of member_cnt, purchaser_cnt and total_cnt over its
\* rows and the cost (in tenths) is the union total times 235; rows (100,20,120) and
\* (50,10,60) give 150, 30, 180 and 4230.0.
C5_TotalsAreSums ==
  /\ totals.displayed = ~IsEmpty(selected_df)
  /\ totals.displayed =>
       /\ totals.total_member = SumAt(SelRows, DOMAIN SelRows, "member_cnt")
       /\ totals.total_buyer_only = SumAt(SelRows, DOMAIN SelRows, "purchaser_cnt")
       /\ totals.total_sum = SumAt(SelRows, DOMAIN SelRows, "total_cnt")
       /\ totals.cost_sum = 235 * totals.total_sum
  /\ LET t == Totals(Frame(CanonicalColumns,
                           << StoreRow(<<"0", "0", "1">>, <<"Gangnam">>, 100, 20, 120),
                              StoreRow(<<"0", "0", "2">>, <<"Daegu">>, 50, 10, 60) >>))
     IN  /\ t.total_member = 150 /\ t.total_buyer_only = 30 /\ t.total_sum = 180
         /\ t.cost_sum = 42300

\* Two stores are selected, one of them with purchasers.
C5_Witness ==
  /\ Len(SelRows) >= 2
  /\ totals.displayed /\ totals.total_buyer_only >= 1
  /\ last.op \in {"add", "remove"}

\* C6: for every warehouse and every filter no (store, identifier) is in
\* both the member cohort and the purchaser-only cohort, and every row of
\* the results and of the selection has total_cnt = member_cnt +
\* purchaser_cnt.
C6_CohortsDisjoint ==
  /\ \A f \in QueryFilters :
       LET mm == M(db, f) IN
       \A m \in mm, p \in PO(P(db, f), mm) : ~(m.SHOP_ID = p.SHOP_ID /\ m.CID = p.CID)
  /\ \A i \in 1..Len(results.rows) :
       results.rows[i].total_cnt
         = results.rows[i].member_cnt + results.rows[i].purchaser_cnt
  /\ \A i \in 1..Len(SelRows) :
       SelRows[i].total_cnt = SelRows[i].member_cnt + SelRows[i].purchaser_cnt

\* A selected store has a member who also bought there: one of its
\* purchasers is left out of the purchaser-only cohort.
C6_Witness ==
  \E i \in 1..Len(SelRows) :
    /\ SelRows[i].member_cnt >= 1
    /\ \E f \in QueryFilters :
         \E p \in P(db, f) \ PO(P(db, f), M(db, f)) : p.SHOP_ID = SelRows[i].store_code

\* C7: remove deletes exactly the selected rows whose store_code is among
\* the keys and keeps the others as they are and in their order; with no
\* key in the selection the selection is unchanged; no error is shown; the
\* same remove applied again changes nothing.
C7_RemoveDeletesExactlyKeys ==
  [][last'.op = "remove"
       => /\ selected_df'.columns = selected_df.columns
          /\ selected_df'.rows
               = SelectSeq(selected_df.rows, LAMBDA r : r.store_code \notin last'.keys)
          /\ (last'.keys \cap SelCodes = {} => selected_df' = selected_df)
          /\ "exception" \notin shown'
          /\ ((last.op = "remove" /\ last.keys = last'.keys)
                => selected_df' = selected_df)]_vars

\* A remove has deleted some rows and kept others.
C7_Witness ==
  /\ last.op = "remove"
  /\ Len(SelRows) < last.selBefore
  /\ Len(SelRows) >= 1

\* C8: after clear, as at session start, the selection has no rows and
\* the canonical columns; a second clear therefore leaves it as it is.
C8_ClearYieldsCanonicalEmpty ==
  last.op \in {"clear", "init"} =>
    /\ selected_df.rows = <<>>
    /\ selected_df.columns
         = <<"store_code", "shop_name", "member_cnt", "purchaser_cnt", "total_cnt">>

\* A clear has emptied a selection that had rows.
C8_Witness == last.op = "clear" /\ last.selBefore > 0

\* C9: once the action that called run_query is complete no connection
\* and no cursor is open, whatever became of the call.
C9_ConnectionsClosed == open.conns = 0 /\ open.cursors = 0

\* A call acquired a connection and a cursor and then failed.
C9_Witness ==
  /\ last.fate = "execute_error"
  /\ open.conns = 0

\* C10: a query that returns an empty table, in the search and in the
\* export, is reported by an informational message and not as an error.
C10_EmptyResultIsInformed ==
  (last.op \in {"search", "export"} /\ last.fate \in {"ok", "cache_hit"} /\ last.empty)
    => /\ shown \cap {"info_no_user_id", "info_no_result"} # {}
       /\ "exception" \notin shown

====
